---- MODULE Spec2Model ----
(***************************************************************************)
(* The two context managers of example.py, Timer (a class with __enter__   *)
(* and __exit__) and database_connection (a @contextmanager generator      *)
(* with a yield inside try/finally), run by Python's `with` statement.     *)
(*                                                                         *)
(* The script runs its `with` blocks one after the other.  Each block is   *)
(* an invocation k: the form of the context manager, the db_name given to  *)
(* database_connection and the `except` clause around the block (if any)   *)
(* are inputs of the invocation, and so are the outcome of the setup code  *)
(* (it returns, or a statement of it raises) and of the body (it runs to   *)
(* its end, or raises).  record[k] is the invocation's execution record:   *)
(* the lifecycle events in the order they happened.                        *)
(***************************************************************************)
EXTENDS Integers, Sequences, FiniteSets, TLC

\* Bounds of the model.
MaxInvocations == 2
MaxClock == 1

Slots == 1..MaxInvocations

None == "None"
Forms == {"Timer", "database_connection"}
Errors == {"ValueError", "OSError"}
DbNames == {"produccion_db", "reportes_db"}

VARIABLES
    state,       \* state[k]: where invocation k is in its with statement
    form,        \* form[k]: "Timer" or "database_connection" (None before the call)
    handler,     \* handler[k]: the exception class of the except clause around the block, or None
    record,      \* record[k]: the lifecycle events of invocation k, in order
    setup,       \* setup[k]: "pending", "ok", or the error the setup code raised
    outcome,     \* outcome[k]: the body's outcome, Completed or Failed(error)
    exc_val,     \* exc_val[k]: the exception handed to __exit__ (None without one)
    exit_ret,    \* exit_ret[k]: what __exit__ returned
    result,      \* result[k]: what the code around the block observed
    gen,         \* gen[k]: the generator of database_connection: its frame and position
    connection,  \* connection[k]: the dict database_connection creates
    writes,      \* writes[k]: how many times connection[k]["status"] was reassigned
    timer,       \* timer[k]: the Timer object's start_time and end_time
    db,          \* the script's variable db: the invocation whose connection it names, 0 unbound
    clock        \* time.time()

vars == <<state, form, handler, record, setup, outcome, exc_val, exit_ret, result,
          gen, connection, writes, timer, db, clock>>

NoOutcome == [tag |-> "None", error |-> None]
Completed == [tag |-> "Completed", error |-> None]
Failed(e) == [tag |-> "Failed", error |-> e]

Pending == [kind |-> "pending", error |-> None]
Returned == [kind |-> "returned", error |-> None]
Raised(e) == [kind |-> "raised", error |-> e]

NoHandle == [db |-> None, status |-> None]
NoGen == [at |-> "none", db_name |-> None, yields |-> 0, resumes |-> 0]
NoTimer == [start_time |-> -1, end_time |-> -1]

Count(s, e) == Cardinality({i \in DOMAIN s : s[i] = e})
Index(s, e) == IF \E i \in DOMAIN s : s[i] = e
               THEN CHOOSE i \in DOMAIN s : s[i] = e /\ \A j \in 1..(i - 1) : s[j] # e
               ELSE 0

Init ==
    /\ state = [k \in Slots |-> "Idle"]
    /\ form = [k \in Slots |-> None]
    /\ handler = [k \in Slots |-> None]
    /\ record = [k \in Slots |-> <<>>]
    /\ setup = [k \in Slots |-> "pending"]
    /\ outcome = [k \in Slots |-> NoOutcome]
    /\ exc_val = [k \in Slots |-> None]
    /\ exit_ret = [k \in Slots |-> FALSE]
    /\ result = [k \in Slots |-> Pending]
    /\ gen = [k \in Slots |-> NoGen]
    /\ connection = [k \in Slots |-> NoHandle]
    /\ writes = [k \in Slots |-> 0]
    /\ timer = [k \in Slots |-> NoTimer]
    /\ db = 0
    /\ clock = 0

\* An exception that left block k and that the except clause around it does not catch
\* ends the script.
Uncaught(k) == result[k].kind = "raised" /\ handler[k] # result[k].error

\* The script is sequential: block k starts when block k - 1 has been left.
CanInvoke(k) ==
    /\ state[k] = "Idle"
    /\ k > 1 => (result[k - 1].kind # "pending" /\ ~Uncaught(k - 1))

\* `with Timer():` / `with database_connection(n) as db:` is reached: the context
\* expression is evaluated and __enter__ is called (for the generator form, next(gen)).
Invoke(k, f, n, h) ==
    /\ CanInvoke(k)
    /\ (f = "Timer") = (n = None)
    /\ state' = [state EXCEPT ![k] = "SettingUp"]
    /\ form' = [form EXCEPT ![k] = f]
    /\ handler' = [handler EXCEPT ![k] = h]
    /\ record' = [record EXCEPT ![k] = <<"SetupStarted">>]
    /\ gen' = [gen EXCEPT ![k] = IF f = "database_connection"
                                 THEN [NoGen EXCEPT !.at = "running", !.db_name = n]
                                 ELSE NoGen]
    /\ UNCHANGED <<setup, outcome, exc_val, exit_ret, result, connection, writes,
                   timer, db, clock>>

\* Variant of Connect: the connection is created already closed.
Connect_Closed(n) == [db |-> n, status |-> "desconectado"]

\* Line 66: the connection object the generator creates for db_name n.
Connect(n) == [db |-> n, status |-> "conectado"]

\* Variant of Disconnect: the finally block leaves the status as it was.
Disconnect_Forgotten(c) == c

\* Line 77: connection["status"] = "desconectado".
Disconnect(c) == [c EXCEPT !.status = "desconectado"]

\* Variant of AsTarget: the with statement has no `as db`.
AsTarget_Missing(f, k, old) == old

\* Lines 81, 92: `as db` binds the script's variable db to what __enter__ returned, the
\* connection of invocation k; `with Timer():` (line 41) has no target and binds nothing.
AsTarget(f, k, old) == IF f = "database_connection" THEN k ELSE old

\* Variant of Timer_exit_returns: __exit__ ends with `return True`.
Timer_exit_returns_True == TRUE

\* Line 38: Timer.__exit__ returns False, whatever exception it was handed.
Timer_exit_returns == FALSE

\* Variant of Generator_exit_returns: the generator catches the exception thrown in at
\* the yield (an except clause that does not re-raise), so __exit__ returns True.
Generator_exit_returns_True == TRUE

\* Lines 68-77: the try has a finally and no except, so an exception thrown in at the
\* yield leaves the generator unchanged and the context manager's __exit__ returns
\* False; without an exception the generator ends and __exit__ returns False.
Generator_exit_returns == FALSE

ExitReturn(f) == IF f = "Timer" THEN Timer_exit_returns ELSE Generator_exit_returns

\* Variant of SetupOk: the connection dict is created once at module level and every
\* call of database_connection yields that same dict.
SetupOk_SharedHandle(k) ==
    /\ state[k] = "SettingUp"
    /\ state' = [state EXCEPT ![k] = "Ready"]
    /\ setup' = [setup EXCEPT ![k] = "ok"]
    /\ record' = [record EXCEPT ![k] = Append(@, "SetupDone")]
    /\ IF form[k] = "Timer"
       THEN /\ timer' = [timer EXCEPT ![k].start_time = clock]
            /\ UNCHANGED <<gen, connection>>
       ELSE /\ connection' = [connection EXCEPT ![k] =
                                 IF db # 0 THEN connection[db] ELSE Connect(gen[k].db_name)]
            /\ gen' = [gen EXCEPT ![k].at = "suspended", ![k].yields = @ + 1]
            /\ UNCHANGED timer
    /\ db' = AsTarget(form[k], k, db)
    /\ UNCHANGED <<form, handler, outcome, exc_val, exit_ret, result, writes, clock>>

\* __enter__ returns.  Timer.__enter__ (lines 20-21) stores the start time;
\* database_connection (lines 63-71) creates the connection, enters the try and
\* suspends at the yield, and the with statement binds its target.
SetupOk(k) ==
    /\ state[k] = "SettingUp"
    /\ state' = [state EXCEPT ![k] = "Ready"]
    /\ setup' = [setup EXCEPT ![k] = "ok"]
    /\ record' = [record EXCEPT ![k] = Append(@, "SetupDone")]
    /\ IF form[k] = "Timer"
       THEN /\ timer' = [timer EXCEPT ![k].start_time = clock]
            /\ UNCHANGED <<gen, connection>>
       ELSE /\ connection' = [connection EXCEPT ![k] = Connect(gen[k].db_name)]
            /\ gen' = [gen EXCEPT ![k].at = "suspended", ![k].yields = @ + 1]
            /\ UNCHANGED timer
    /\ db' = AsTarget(form[k], k, db)
    /\ UNCHANGED <<form, handler, outcome, exc_val, exit_ret, result, writes, clock>>

\* Variant of SetupFail: the failing setup statement stands inside the try, so the
\* finally block runs although the setup never finished.
SetupFail_InsideTry(k, e) ==
    /\ state[k] = "SettingUp"
    /\ state' = [state EXCEPT ![k] = "Aborted"]
    /\ setup' = [setup EXCEPT ![k] = e]
    /\ result' = [result EXCEPT ![k] = Raised(e)]
    /\ record' = [record EXCEPT ![k] = @ \o <<"TeardownStarted", "TeardownDone">>]
    /\ gen' = [gen EXCEPT ![k].at = IF form[k] = "Timer" THEN @ ELSE "closed"]
    /\ UNCHANGED <<form, handler, outcome, exc_val, exit_ret, connection,
                   writes, timer, db, clock>>

\* Variant of SetupFail: the connection is created before the statement that fails.
SetupFail_AfterConnect(k, e) ==
    /\ state[k] = "SettingUp"
    /\ state' = [state EXCEPT ![k] = "Aborted"]
    /\ setup' = [setup EXCEPT ![k] = e]
    /\ result' = [result EXCEPT ![k] = Raised(e)]
    /\ connection' = [connection EXCEPT ![k] = IF form[k] = "Timer" THEN @
                                               ELSE Connect(gen[k].db_name)]
    /\ gen' = [gen EXCEPT ![k].at = IF form[k] = "Timer" THEN @ ELSE "closed"]
    /\ UNCHANGED <<form, handler, record, outcome, exc_val, exit_ret,
                   writes, timer, db, clock>>

\* A statement of the setup code raises e: in Timer.__enter__ (lines 20-21), or in
\* database_connection before its try (line 63).  The exception leaves __enter__ and
\* the with statement: no target is bound, the body is skipped and __exit__ is not
\* called.
SetupFail(k, e) ==
    /\ state[k] = "SettingUp"
    /\ state' = [state EXCEPT ![k] = "Aborted"]
    /\ setup' = [setup EXCEPT ![k] = e]
    /\ result' = [result EXCEPT ![k] = Raised(e)]
    /\ gen' = [gen EXCEPT ![k].at = IF form[k] = "Timer" THEN @ ELSE "closed"]
    /\ UNCHANGED <<form, handler, record, outcome, exc_val, exit_ret, connection,
                   writes, timer, db, clock>>

\* The first statement of the block's body is reached.
BodyStart(k) ==
    /\ state[k] = "Ready"
    /\ state' = [state EXCEPT ![k] = "RunningBody"]
    /\ record' = [record EXCEPT ![k] = Append(@, "BodyStarted")]
    /\ UNCHANGED <<form, handler, setup, outcome, exc_val, exit_ret, result, gen,
                   connection, writes, timer, db, clock>>

\* Variant of BodyWork: the statements after the failing one still run.
BodyWork_AfterFailure(k) ==
    /\ state[k] = "RunningBody"
    /\ clock < MaxClock
    /\ clock' = clock + 1
    /\ UNCHANGED <<state, form, handler, record, setup, outcome, exc_val, exit_ret,
                   result, gen, connection, writes, timer, db>>

\* The body works: time.sleep (lines 44, 85) lets time pass.
BodyWork(k) ==
    /\ state[k] = "RunningBody"
    /\ outcome[k] = NoOutcome
    /\ clock < MaxClock
    /\ clock' = clock + 1
    /\ UNCHANGED <<state, form, handler, record, setup, outcome, exc_val, exit_ret,
                   result, gen, connection, writes, timer, db>>

\* The body runs past its last statement.
BodyComplete(k) ==
    /\ state[k] = "RunningBody"
    /\ outcome[k] = NoOutcome
    /\ outcome' = [outcome EXCEPT ![k] = Completed]
    /\ record' = [record EXCEPT ![k] = Append(@, "BodyOutcome")]
    /\ UNCHANGED <<state, form, handler, setup, exc_val, exit_ret, result, gen,
                   connection, writes, timer, db, clock>>

\* A statement of the body raises e (line 96).
BodyFail(k, e) ==
    /\ state[k] = "RunningBody"
    /\ outcome[k] = NoOutcome
    /\ outcome' = [outcome EXCEPT ![k] = Failed(e)]
    /\ exc_val' = [exc_val EXCEPT ![k] = e]
    /\ record' = [record EXCEPT ![k] = Append(@, "BodyOutcome")]
    /\ UNCHANGED <<state, form, handler, setup, exit_ret, result, gen, connection,
                   writes, timer, db, clock>>

\* Variant of ExitCall: the generator yields outside any try/finally, so an exception
\* thrown in at the yield ends it at once and the code after the yield is skipped.
ExitCall_NoFinally(k) ==
    /\ state[k] = "RunningBody"
    /\ outcome[k] # NoOutcome
    /\ IF form[k] = "database_connection" /\ outcome[k].tag = "Failed"
       THEN /\ state' = [state EXCEPT ![k] = "Done"]
            /\ gen' = [gen EXCEPT ![k].at = "closed", ![k].resumes = @ + 1]
            /\ UNCHANGED record
       ELSE /\ state' = [state EXCEPT ![k] = "TearingDown"]
            /\ record' = [record EXCEPT ![k] = Append(@, "TeardownStarted")]
            /\ gen' = [gen EXCEPT ![k] = IF form[k] = "Timer" THEN @
                                         ELSE [@ EXCEPT !.at = "running", !.resumes = @ + 1]]
    /\ UNCHANGED <<form, handler, setup, outcome, exc_val, exit_ret, result,
                   connection, writes, timer, db, clock>>

\* Variant of ExitCall: the teardown is entered while the body is still running.
ExitCall_BeforeOutcome(k) ==
    /\ state[k] = "RunningBody"
    /\ state' = [state EXCEPT ![k] = "TearingDown"]
    /\ record' = [record EXCEPT ![k] = Append(@, "TeardownStarted")]
    /\ gen' = [gen EXCEPT ![k] = IF form[k] = "Timer" THEN @
                                 ELSE [@ EXCEPT !.at = "running", !.resumes = @ + 1]]
    /\ UNCHANGED <<form, handler, setup, outcome, exc_val, exit_ret, result,
                   connection, writes, timer, db, clock>>

\* The with statement calls __exit__ with the body's exception, if any.  For the
\* generator form this resumes the generator at its yield (next, or throw of the
\* exception), which enters the finally block (line 72).
ExitCall(k) ==
    /\ state[k] = "RunningBody"
    /\ outcome[k] # NoOutcome
    /\ state' = [state EXCEPT ![k] = "TearingDown"]
    /\ record' = [record EXCEPT ![k] = Append(@, "TeardownStarted")]
    /\ gen' = [gen EXCEPT ![k] = IF form[k] = "Timer" THEN @
                                 ELSE [@ EXCEPT !.at = "running", !.resumes = @ + 1]]
    /\ UNCHANGED <<form, handler, setup, outcome, exc_val, exit_ret, result,
                   connection, writes, timer, db, clock>>

\* Variant of Teardown: the cleanup first waits, in a loop, until the connection reads
\* "desconectado", which nothing else ever writes.
Teardown_Waits(k) ==
    /\ state[k] = "TearingDown"
    /\ connection[k].status = "desconectado"
    /\ state' = [state EXCEPT ![k] = "Done"]
    /\ record' = [record EXCEPT ![k] = Append(@, "TeardownDone")]
    /\ exit_ret' = [exit_ret EXCEPT ![k] = ExitReturn(form[k])]
    /\ UNCHANGED <<form, handler, setup, outcome, exc_val, result, db, clock,
                   timer, gen, connection, writes>>

\* Variant of Teardown: the cleanup is written both in an except clause and in the
\* finally block, so it runs twice when the body failed.
Teardown_ExceptAndFinally(k) ==
    /\ state[k] = "TearingDown"
    /\ state' = [state EXCEPT ![k] = "Done"]
    /\ record' = [record EXCEPT ![k] =
                     IF exc_val[k] # None
                     THEN @ \o <<"TeardownDone", "TeardownStarted", "TeardownDone">>
                     ELSE Append(@, "TeardownDone")]
    /\ exit_ret' = [exit_ret EXCEPT ![k] = ExitReturn(form[k])]
    /\ IF form[k] = "Timer"
       THEN /\ timer' = [timer EXCEPT ![k].end_time = clock]
            /\ UNCHANGED <<gen, connection, writes>>
       ELSE /\ connection' = [connection EXCEPT ![k] = Disconnect(@)]
            /\ writes' = [writes EXCEPT ![k] = @ + (IF exc_val[k] # None THEN 2 ELSE 1)]
            /\ gen' = [gen EXCEPT ![k].at = "closed"]
            /\ UNCHANGED timer
    /\ UNCHANGED <<form, handler, setup, outcome, exc_val, result, db, clock>>

\* Variant of Teardown: the finally block yields the connection a second time instead
\* of letting the generator end.
Teardown_YieldsAgain(k) ==
    /\ state[k] = "TearingDown"
    /\ state' = [state EXCEPT ![k] = "Done"]
    /\ record' = [record EXCEPT ![k] = Append(@, "TeardownDone")]
    /\ exit_ret' = [exit_ret EXCEPT ![k] = ExitReturn(form[k])]
    /\ IF form[k] = "Timer"
       THEN /\ timer' = [timer EXCEPT ![k].end_time = clock]
            /\ UNCHANGED <<gen, connection, writes>>
       ELSE /\ connection' = [connection EXCEPT ![k] = Disconnect(@)]
            /\ writes' = [writes EXCEPT ![k] = @ + 1]
            /\ gen' = [gen EXCEPT ![k].at = "suspended", ![k].yields = @ + 1]
            /\ UNCHANGED timer
    /\ UNCHANGED <<form, handler, setup, outcome, exc_val, result, db, clock>>

\* The teardown code runs to its end and __exit__ returns.  Timer.__exit__ (lines
\* 32-38) stores the end time and returns False; the finally block of
\* database_connection (lines 76-77) marks the connection closed, and the generator
\* ends.
Teardown(k) ==
    /\ state[k] = "TearingDown"
    /\ state' = [state EXCEPT ![k] = "Done"]
    /\ record' = [record EXCEPT ![k] = Append(@, "TeardownDone")]
    /\ exit_ret' = [exit_ret EXCEPT ![k] = ExitReturn(form[k])]
    /\ IF form[k] = "Timer"
       THEN /\ timer' = [timer EXCEPT ![k].end_time = clock]
            /\ UNCHANGED <<gen, connection, writes>>
       ELSE /\ connection' = [connection EXCEPT ![k] = Disconnect(@)]
            /\ writes' = [writes EXCEPT ![k] = @ + 1]
            /\ gen' = [gen EXCEPT ![k].at = "closed"]
            /\ UNCHANGED timer
    /\ UNCHANGED <<form, handler, setup, outcome, exc_val, result, db, clock>>

\* The with statement ends: an exception of the body that __exit__ did not suppress
\* (a false return value) is raised again in the code around the block; otherwise
\* that code goes on with the statement after the block.
Leave(k) ==
    /\ state[k] = "Done"
    /\ result[k] = Pending
    /\ result' = [result EXCEPT ![k] = IF exc_val[k] # None /\ ~exit_ret[k]
                                       THEN Raised(exc_val[k])
                                       ELSE Returned]
    /\ UNCHANGED <<state, form, handler, record, setup, outcome, exc_val, exit_ret,
                   gen, connection, writes, timer, db, clock>>

Next ==
    \/ \E k \in Slots, f \in Forms, n \in DbNames \cup {None}, h \in Errors \cup {None} :
           Invoke(k, f, n, h)
    \/ \E k \in Slots : SetupOk(k)
    \/ \E k \in Slots, e \in Errors : SetupFail(k, e)
    \/ \E k \in Slots : BodyStart(k)
    \/ \E k \in Slots : BodyWork(k)
    \/ \E k \in Slots : BodyComplete(k)
    \/ \E k \in Slots, e \in Errors : BodyFail(k, e)
    \/ \E k \in Slots : ExitCall(k)
    \/ \E k \in Slots : Teardown(k)
    \/ \E k \in Slots : Leave(k)

Spec == Init /\ [][Next]_vars

\* A step of invocation k other than the passing of time in its body.
Step(k) ==
    \/ SetupOk(k)
    \/ \E e \in Errors : SetupFail(k, e)
    \/ BodyStart(k)
    \/ BodyComplete(k)
    \/ \E e \in Errors : BodyFail(k, e)
    \/ ExitCall(k)
    \/ Teardown(k)
    \/ Leave(k)

\* The interpreter runs the next statement as long as there is one, and the setup,
\* the body and the teardown each come to an end (by returning or by raising).
FairSpec == Spec /\ \A k \in Slots : WF_vars(Step(k))

(***************************************************************************)
(* The script itself: its three with statements, in order.  The forms, the *)
(* names, the except clause and the raise of line 96 are the script's; a   *)
(* statement of the setup or of a body may still fail for a reason of the  *)
(* environment (print or time.sleep raising), which is an input.           *)
(***************************************************************************)

\* Variant of Script: the third block is not wrapped in try/except.
Script_Unguarded ==
    << [form |-> "Timer", db_name |-> None, handler |-> None,
        sleeps |-> TRUE, raises |-> None],
       [form |-> "database_connection", db_name |-> "produccion_db", handler |-> None,
        sleeps |-> TRUE, raises |-> None],
       [form |-> "database_connection", db_name |-> "reportes_db", handler |-> None,
        sleeps |-> FALSE, raises |-> "ValueError"] >>

\* Lines 41-45, 81-85 and 91-99: each block's context manager, whether it stands in
\* try/except ValueError, whether its body sleeps, and what its body raises.
Script ==
    << [form |-> "Timer", db_name |-> None, handler |-> None,
        sleeps |-> TRUE, raises |-> None],
       [form |-> "database_connection", db_name |-> "produccion_db", handler |-> None,
        sleeps |-> TRUE, raises |-> None],
       [form |-> "database_connection", db_name |-> "reportes_db", handler |-> "ValueError",
        sleeps |-> FALSE, raises |-> "ValueError"] >>

ScriptSlots == DOMAIN Script

ProgramInit ==
    /\ state = [k \in ScriptSlots |-> "Idle"]
    /\ form = [k \in ScriptSlots |-> None]
    /\ handler = [k \in ScriptSlots |-> None]
    /\ record = [k \in ScriptSlots |-> <<>>]
    /\ setup = [k \in ScriptSlots |-> "pending"]
    /\ outcome = [k \in ScriptSlots |-> NoOutcome]
    /\ exc_val = [k \in ScriptSlots |-> None]
    /\ exit_ret = [k \in ScriptSlots |-> FALSE]
    /\ result = [k \in ScriptSlots |-> Pending]
    /\ gen = [k \in ScriptSlots |-> NoGen]
    /\ connection = [k \in ScriptSlots |-> NoHandle]
    /\ writes = [k \in ScriptSlots |-> 0]
    /\ timer = [k \in ScriptSlots |-> NoTimer]
    /\ db = 0
    /\ clock = 0

\* The steps of the script when no statement fails for a reason of the environment.
ProgramStep ==
    \/ \E k \in ScriptSlots :
           Invoke(k, Script[k].form, Script[k].db_name, Script[k].handler)
    \/ \E k \in ScriptSlots : SetupOk(k)
    \/ \E k \in ScriptSlots : BodyStart(k)
    \/ \E k \in ScriptSlots : Script[k].sleeps /\ BodyWork(k)
    \/ \E k \in ScriptSlots : Script[k].raises = None /\ BodyComplete(k)
    \/ \E k \in ScriptSlots : Script[k].raises # None /\ BodyFail(k, Script[k].raises)
    \/ \E k \in ScriptSlots : ExitCall(k)
    \/ \E k \in ScriptSlots : Teardown(k)
    \/ \E k \in ScriptSlots : Leave(k)

\* A statement of the setup code or of a body fails for a reason of the environment.
EnvironmentFailure ==
    \/ \E k \in ScriptSlots, e \in Errors : SetupFail(k, e)
    \/ \E k \in ScriptSlots, e \in Errors : BodyFail(k, e)

ProgramNext == ProgramStep \/ EnvironmentFailure

ProgramSpec == ProgramInit /\ [][ProgramNext]_vars

(***************************************************************************)
(* Properties.                                                             *)
(***************************************************************************)

\* Control is back in the code around block k (it went on after the block, or an
\* exception reached it).
Left(k) == result[k].kind # "pending"

Occurred(k, e) == Count(record[k], e) > 0

\* In s, event b occurs only after an occurrence of event a.
Before(s, a, b) == Index(s, b) # 0 => (Index(s, a) # 0 /\ Index(s, a) < Index(s, b))

FullRecord == <<"SetupStarted", "SetupDone", "BodyStarted", "BodyOutcome",
                "TeardownStarted", "TeardownDone">>

\* C1: in either form, teardown never runs twice, and when setup succeeded it has run
\* exactly once by the time control is back in the code around the block, whether the
\* body completed or failed.
C1_TeardownExactlyOnce ==
    \A k \in Slots :
        /\ Count(record[k], "TeardownStarted") <= 1
        /\ Count(record[k], "TeardownDone") <= 1
        /\ (Occurred(k, "SetupDone") /\ Left(k)) =>
               /\ Count(record[k], "TeardownStarted") = 1
               /\ Count(record[k], "TeardownDone") = 1

\* A Timer block whose body completed and a database_connection block whose body
\* failed have both been left, each with one teardown.
C1_Witness ==
    \E j, k \in Slots :
        /\ form[j] = "Timer" /\ outcome[j] = Completed /\ Left(j)
        /\ Count(record[j], "TeardownDone") = 1
        /\ form[k] = "database_connection" /\ outcome[k].tag = "Failed" /\ Left(k)
        /\ Count(record[k], "TeardownDone") = 1

\* C2: when the body failed with E, the code around the block observes E itself and
\* nothing else, and only once the teardown is done.
C2_FailurePropagatesAfterTeardown ==
    \A k \in Slots :
        outcome[k].tag = "Failed" =>
            /\ Left(k) => result[k] = Raised(outcome[k].error)
            /\ Left(k) => (state[k] = "Done" /\ Occurred(k, "TeardownDone"))

\* Both forms have re-raised a body failure after their teardown.
C2_Witness ==
    \E j, k \in Slots :
        /\ form[j] = "Timer" /\ form[k] = "database_connection"
        /\ \A i \in {j, k} : /\ outcome[i].tag = "Failed"
                             /\ result[i] = Raised(outcome[i].error)
                             /\ Occurred(i, "TeardownDone")

\* C3: SetupDone precedes BodyStarted, BodyOutcome precedes TeardownStarted, and a
\* block whose setup succeeded is left only after TeardownDone; the teardown events
\* themselves are in order.
C3_Ordering ==
    \A k \in Slots :
        /\ Before(record[k], "SetupDone", "BodyStarted")
        /\ Before(record[k], "BodyOutcome", "TeardownStarted")
        /\ Before(record[k], "TeardownStarted", "TeardownDone")
        /\ (Left(k) /\ Occurred(k, "SetupDone")) => record[k][Len(record[k])] = "TeardownDone"

\* A block has been left with all six events in its record.
C3_Witness == \E k \in Slots : Left(k) /\ record[k] = FullRecord

\* C4: TeardownStarted occurs only after SetupDone, and an invocation whose setup
\* failed has no teardown event and no write to a connection's status.
C4_NoTeardownWithoutSetup ==
    \A k \in Slots :
        /\ Before(record[k], "SetupDone", "TeardownStarted")
        /\ setup[k] \in Errors =>
               /\ ~Occurred(k, "TeardownStarted")
               /\ ~Occurred(k, "TeardownDone")
               /\ writes[k] = 0

\* The setup of a database_connection block has failed, and the teardown of another
\* block has started.
C4_Witness ==
    /\ \E k \in Slots : setup[k] \in Errors /\ form[k] = "database_connection" /\ Left(k)
    /\ \E k \in Slots : Occurred(k, "TeardownStarted")

\* C5: when setup fails with E the invocation is Aborted: no connection exists, db is
\* not bound to it, neither SetupDone nor BodyStarted occurs, no body outcome exists,
\* and the code around the block has observed E; and Aborted is reached in no other
\* way.
C5_SetupFailureAborts ==
    \A k \in Slots :
        /\ setup[k] \in Errors =>
               /\ state[k] = "Aborted"
               /\ connection[k] = NoHandle
               /\ db # k
               /\ ~Occurred(k, "SetupDone")
               /\ ~Occurred(k, "BodyStarted")
               /\ outcome[k] = NoOutcome
               /\ result[k] = Raised(setup[k])
        /\ state[k] = "Aborted" => setup[k] \in Errors

\* The setup of a database_connection block has failed.
C5_Witness ==
    \E k \in Slots : /\ form[k] = "database_connection"
                     /\ state[k] = "Aborted"
                     /\ result[k] = Raised("OSError")

\* C7: the status of a connection is reassigned at most once, from "conectado" to
\* "desconectado", and when a database_connection block whose setup succeeded has been
\* left, normally or by the body's failure, it has been reassigned exactly once and
\* is "desconectado".
C7_StatusClosedOnReturn ==
    \A k \in Slots :
        form[k] = "database_connection" =>
            /\ writes[k] <= 1
            /\ writes[k] = 0 => connection[k].status \in {None, "conectado"}
            /\ writes[k] = 1 => connection[k].status = "desconectado"
            /\ (Left(k) /\ setup[k] = "ok") =>
                   (writes[k] = 1 /\ connection[k].status = "desconectado")

\* Two database_connection blocks have been left, one normally and one by a failure
\* of its body, each with its connection closed.
C7_Witness ==
    \E j, k \in Slots :
        /\ form[j] = "database_connection" /\ form[k] = "database_connection"
        /\ result[j] = Returned /\ outcome[j] = Completed
        /\ result[k].kind = "raised" /\ outcome[k].tag = "Failed"
        /\ connection[j].status = "desconectado"
        /\ connection[k].status = "desconectado"

\* C8: a Timer block and a database_connection block with the same setup outcome and
\* the same body outcome end in the same state, with the same execution record and
\* the same result in the code around them.
C8_FormsEquivalent ==
    \A j, k \in Slots :
        ( /\ form[j] = "Timer" /\ form[k] = "database_connection"
          /\ Left(j) /\ Left(k)
          /\ setup[j] = setup[k]
          /\ outcome[j] = outcome[k] ) =>
            /\ record[j] = record[k]
            /\ result[j] = result[k]
            /\ state[j] = state[k]

\* A Timer block and a database_connection block whose bodies failed with the same
\* error have both been left.
C8_Witness ==
    \E j, k \in Slots :
        /\ form[j] = "Timer" /\ form[k] = "database_connection"
        /\ Left(j) /\ Left(k)
        /\ outcome[j] = Failed("ValueError") /\ outcome[k] = Failed("ValueError")
        /\ result[j] = Raised("ValueError") /\ result[k] = Raised("ValueError")

\* The latest database_connection block whose setup succeeded.
LatestConnected(k) ==
    /\ form[k] = "database_connection"
    /\ setup[k] = "ok"
    /\ \A j \in Slots : (j > k /\ form[j] = "database_connection") => setup[j] # "ok"

\* C9 as claimed: the script's variable db gives access to the connection of block k
\* neither before the setup of k has returned nor after k has been left.
C9_HandleUnreachableOutsideBlock ==
    \A k \in Slots :
        /\ state[k] \in {"Idle", "SettingUp", "Aborted"} => db # k
        /\ Left(k) => db # k

\* C9 as amended: db gives no access to the connection of block k before the setup of
\* k has returned; but after the block has been left db still names its connection
\* (until a later block binds db again), whose status then reads "desconectado".
C9_HandleReachableAfterExit ==
    /\ \A k \in Slots : state[k] \in {"Idle", "SettingUp", "Aborted"} => db # k
    /\ db # 0 => connection[db] # NoHandle
    /\ \A k \in Slots :
           LatestConnected(k) =>
               /\ db = k
               /\ Left(k) => connection[db].status = "desconectado"

\* A database_connection block has been left and db names its closed connection.
C9_Witness ==
    \E k \in Slots : Left(k) /\ db = k /\ connection[db].status = "desconectado"

\* C10: an invocation that has begun has exactly one SetupStarted, and at most one of
\* each of SetupDone, BodyStarted, BodyOutcome, TeardownStarted and TeardownDone, with
\* no TeardownDone without its TeardownStarted; one that has not begun has no event.
C10_EventsAtMostOnce ==
    \A k \in Slots :
        /\ state[k] = "Idle" => record[k] = <<>>
        /\ state[k] # "Idle" => Count(record[k], "SetupStarted") = 1
        /\ \A e \in {"SetupDone", "BodyStarted", "BodyOutcome", "TeardownStarted",
                     "TeardownDone"} : Count(record[k], e) <= 1
        /\ Count(record[k], "TeardownDone") <= Count(record[k], "TeardownStarted")

\* One invocation was aborted by its setup and another went through its body's failure
\* and its teardown.
C10_Witness ==
    \E j, k \in Slots :
        /\ state[j] = "Aborted" /\ record[j] = <<"SetupStarted">>
        /\ outcome[k].tag = "Failed" /\ Left(k) /\ record[k] = FullRecord

\* C11: invocations share no mutable state.  When the body of a database_connection
\* block starts, its connection reads "conectado" and has never been written, whatever
\* earlier blocks did; and a step of invocation k (its setup, its teardown) leaves
\* the connection, the generator and the Timer fields of every other invocation as
\* they were.
C11_NoSharedState ==
    [][\A k \in Slots :
           /\ (form[k] = "database_connection" /\ state[k] = "Ready"
                   /\ state'[k] = "RunningBody") =>
                  (connection'[k] = Connect(gen[k].db_name) /\ writes'[k] = 0)
           /\ state'[k] # state[k] =>
                  \A j \in Slots \ {k} : /\ connection'[j] = connection[j]
                                         /\ writes'[j] = writes[j]
                                         /\ gen'[j] = gen[j]
                                         /\ timer'[j] = timer[j]]_vars

\* The body of a database_connection block runs on an open connection after an
\* earlier database_connection block was torn down.
C11_Witness ==
    \E j, k \in Slots :
        /\ j < k
        /\ form[j] = "database_connection" /\ connection[j].status = "desconectado"
        /\ form[k] = "database_connection" /\ state[k] = "RunningBody"
        /\ connection[k].status = "conectado"

\* Block k of the script met a failure the script does not contain: its setup failed,
\* or its body failed with something else than what the body raises.
EnvFailed(k) ==
    \/ setup[k] \in Errors
    \/ outcome[k].tag = "Failed" /\ outcome[k].error # Script[k].raises

IsPrefix(s, t) == Len(s) <= Len(t) /\ \A i \in DOMAIN s : s[i] = t[i]

\* The last statement of the script (line 101) is reached: the last block has been
\* left and no exception is on its way out of the script.
ProgramFinished ==
    /\ Left(Len(Script))
    /\ \A k \in ScriptSlots : ~Uncaught(k)

\* C12: as long as no statement fails for a reason of the environment, the script
\* follows its documented output: every block goes through setup, body and teardown
\* in this order, a block starts only when the one before it has been left, the Timer
\* block and the first database block are left normally, the second database block
\* is left by its ValueError after its connection was closed and the except clause
\* catches it; and the script is never stuck before its last statement.
C12_ProgramRunsAsDocumented ==
    (\A k \in ScriptSlots : ~EnvFailed(k)) =>
        /\ \A k \in ScriptSlots :
               /\ IsPrefix(record[k], FullRecord)
               /\ state[k] # "Idle" => /\ form[k] = Script[k].form
                                       /\ gen[k].db_name = Script[k].db_name
               /\ (k > 1 /\ record[k] # <<>>) => Left(k - 1)
               /\ Left(k) =>
                      /\ record[k] = FullRecord
                      /\ result[k] = IF Script[k].raises = None
                                     THEN Returned
                                     ELSE Raised(Script[k].raises)
                      /\ ~Uncaught(k)
                      /\ form[k] = "database_connection" =>
                             connection[k].status = "desconectado"
        /\ ProgramFinished \/ ENABLED ProgramStep

\* The script has reached its last statement with no failure of the environment: the
\* ValueError of the third block was caught after its connection was closed.
C12_Witness ==
    /\ ProgramFinished
    /\ \A k \in ScriptSlots : ~EnvFailed(k) /\ record[k] = FullRecord
    /\ result[3] = Raised("ValueError")
    /\ connection[3] = [db |-> "reportes_db", status |-> "desconectado"]

\* C13: every invocation that has begun eventually reaches Done or Aborted: it does
\* not stay forever in SettingUp, Ready, RunningBody or TearingDown.
C13_InvocationTerminates ==
    \A k \in Slots :
        (state[k] \in {"SettingUp", "Ready", "RunningBody", "TearingDown"})
            ~> (state[k] \in {"Done", "Aborted"})

\* One invocation has ended Aborted and another Done.
C13_Witness ==
    \E j, k \in Slots : state[j] = "Aborted" /\ state[k] = "Done" /\ Left(k)

\* The transitions of an invocation's state.
Transitions ==
    { <<"Idle", "SettingUp">>, <<"SettingUp", "Ready">>, <<"SettingUp", "Aborted">>,
      <<"Ready", "RunningBody">>, <<"RunningBody", "TearingDown">>,
      <<"TearingDown", "Done">> }

\* C14: the state of an invocation changes only along Idle -> SettingUp -> Ready ->
\* RunningBody -> TearingDown -> Done or SettingUp -> Aborted; so TearingDown is
\* entered only from RunningBody and nothing leaves Done or Aborted.
C14_OnlySpecifiedTransitions ==
    [][\A k \in Slots :
           state'[k] # state[k] => <<state[k], state'[k]>> \in Transitions]_vars

\* One invocation went through TearingDown to Done after its body completed, and
\* another has entered TearingDown after its body failed.
C14_Witness ==
    \E j, k \in Slots :
        /\ state[j] = "Done" /\ outcome[j] = Completed
        /\ state[k] = "TearingDown" /\ outcome[k].tag = "Failed"

\* C15: the generator of database_connection suspends at most once and is resumed at
\* most once, never resumed more often than it suspended; once resumed, by next or by
\* the body's exception, the finally block has been entered; and when the block has
\* been left after a successful setup it has suspended once, been resumed once and
\* has ended.
C15_YieldCrossedOnce ==
    \A k \in Slots :
        form[k] = "database_connection" =>
            /\ gen[k].yields <= 1
            /\ gen[k].resumes <= gen[k].yields
            /\ gen[k].resumes = 1 => Occurred(k, "TeardownStarted")
            /\ gen[k].at = "suspended" => state[k] \in {"Ready", "RunningBody"}
            /\ (Left(k) /\ setup[k] = "ok") =>
                   (gen[k].yields = 1 /\ gen[k].resumes = 1 /\ gen[k].at = "closed")

\* A database_connection block whose body failed has been left: its generator
\* suspended once, was resumed once and has ended after its finally block.
C15_Witness ==
    \E k \in Slots :
        /\ form[k] = "database_connection" /\ outcome[k].tag = "Failed" /\ Left(k)
        /\ gen[k].yields = 1 /\ gen[k].resumes = 1 /\ gen[k].at = "closed"
        /\ Occurred(k, "TeardownDone")

\* C16: from BodyStarted until the teardown starts, the body of a database_connection
\* block reads "conectado" through db: db names the block's own connection, which
\* has not been written.
C16_BodySeesOpenConnection ==
    \A k \in Slots :
        ( /\ form[k] = "database_connection"
          /\ Occurred(k, "BodyStarted")
          /\ ~Occurred(k, "TeardownStarted") ) =>
            /\ db = k
            /\ connection[db].status = "conectado"
            /\ writes[k] = 0

\* The body of a database_connection block has just failed, its teardown has not
\* started, and db still reads "conectado".
C16_Witness ==
    \E k \in Slots :
        /\ form[k] = "database_connection" /\ state[k] = "RunningBody"
        /\ outcome[k].tag = "Failed"
        /\ connection[db].status = "conectado"

\* C17: once the body of invocation k has failed, its outcome stays, no time passes in
\* the body, the next event of its record is TeardownStarted, and its state never
\* becomes RunningBody again.
C17_NoBodyStepAfterFailure ==
    [][\A k \in Slots :
           outcome[k].tag = "Failed" =>
               /\ outcome'[k] = outcome[k]
               /\ state[k] = "RunningBody" =>
                      /\ clock' = clock
                      /\ record'[k] \in {record[k], Append(record[k], "TeardownStarted")}
               /\ state[k] # "RunningBody" => state'[k] # "RunningBody"
               /\ Count(record'[k], "BodyStarted") = 1
               /\ Count(record'[k], "BodyOutcome") = 1]_vars

\* The teardown of an invocation has started after its body failed.
C17_Witness ==
    \E k \in Slots :
        /\ outcome[k].tag = "Failed"
        /\ state[k] = "TearingDown"
        /\ record[k][Len(record[k])] = "TeardownStarted"
        /\ record[k][Len(record[k]) - 1] = "BodyOutcome"
====
